---- MODULE Spec2Model ----
(***************************************************************************)
(* The auto-order engine of src/lib/auto-order-engine.ts as a state        *)
(* machine.  The store holds the Firestore collections the engine touches; *)
(* two invocations of executeAutoOrders (the cron route and the manual     *)
(* test-execute endpoint) run concurrently against it.  A Firestore        *)
(* transaction is modelled by its read phase (a consistent snapshot of the *)
(* documents it gets) and its commit, which the store refuses and re-runs  *)
(* when a document it read was written in between.                         *)
(***************************************************************************)
EXTENDS Integers, Sequences, FiniteSets, TLC

\* ---------------------------------------------------------------- bounds

MaxDay == 2
MaxStock == 2
MaxBalance == 2

\* The last minute since 1970-01-01T00:00Z of the Dates getIST is tried on.
MaxMinute == 2879

\* ------------------------------------------------------------- constants

\* DAY_MAP: getUTCDay() index -> DayOfWeek
DAY_MAP == [n \in 0..6 |->
              CASE n = 0 -> "Sun" [] n = 1 -> "Mon" [] n = 2 -> "Tue"
                [] n = 3 -> "Wed" [] n = 4 -> "Thu" [] n = 5 -> "Fri"
                [] OTHER -> "Sat"]

\* WEEKDAYS with Saturday in it.
SixWeekdays == {"Mon", "Tue", "Wed", "Thu", "Fri", "Sat"}

WEEKDAYS == {"Mon", "Tue", "Wed", "Thu", "Fri"}

\* The milliseconds of a minute, an hour and a day, as Date counts them.
MinuteMs == 60 * 1000

HourMs == 60 * MinuteMs

DayMs == 24 * HourMs

\* An offset of five hours, without the half.
FiveHoursMs == 5 * HourMs

\* IST offset = UTC + 5:30, in milliseconds
IST_OFFSET_MS == 19800000

\* The two callers of executeAutoOrders named by the file header.
Runs == {"cron", "manual"}

\* The minutes of a day the model distinguishes, in order.
Slots == <<"09:00", "10:00">>

SlotSet == {Slots[k] : k \in 1..Len(Slots)}

\* The IST minute of the day at which each of them begins.
SlotMinutes == <<9 * 60, 10 * 60>>

\* executeAutoOrders() called with no overrideTime.
NoOverride == "none"

\* A field a document does not have.
Absent == "absent"

\* lastExecutedDate of an auto order that never ran.
NoDate == 0

\* ------------------------------------------------------------- documents

Users == {"u1", "u2"}

Items == {"i1", "i2"}

AutoOrderIds == <<"a1", "a2">>

AutoOrderIdSet == {AutoOrderIds[k] : k \in 1..Len(AutoOrderIds)}

NoUser == [exists |-> FALSE, walletBalance |-> 0]

NoItem == [exists |-> FALSE, quantity |-> 0, available |-> Absent]

\* customDays that is no array (the field is missing or malformed), and one that is.
NoDays == [isArray |-> FALSE, days |-> {}]

Days(set) == [isArray |-> TRUE, days |-> set]

AutoOrderDoc(u, it, price, qty, freq, days, t, st) ==
    [userId |-> u, itemId |-> it, itemPrice |-> price, quantity |-> qty,
     frequency |-> freq, customDays |-> days, time |-> t, status |-> st,
     lastExecutedDate |-> NoDate, totalExecutions |-> 0, totalFailures |-> 0,
     lastFailureReason |-> Absent]

\* The subscriptions the second auto order is drawn from: it contends with the
\* first for the same user and item, or names a missing user or item, or has
\* another recurrence rule, time or status.
SecondAutoOrders ==
    { AutoOrderDoc("u1", "i1", 2, 1, "daily", NoDays, "09:00", "active"),
      AutoOrderDoc("u1", "i1", 1, 2, "weekdays", NoDays, "09:00", "active"),
      AutoOrderDoc("u2", "i1", 1, 1, "daily", NoDays, "09:00", "active"),
      AutoOrderDoc("u1", "i2", 1, 1, "daily", NoDays, "09:00", "active"),
      AutoOrderDoc("u1", "i1", 1, 1, "custom", Days({"Sat"}), "09:00", "active"),
      AutoOrderDoc("u1", "i1", 1, 1, "custom", NoDays, "09:00", "active"),
      AutoOrderDoc("u1", "i1", 1, 1, "monthly", NoDays, "09:00", "active"),
      AutoOrderDoc("u1", "i1", 1, 1, "daily", NoDays, "10:00", "active"),
      AutoOrderDoc("u1", "i1", 1, 1, "daily", NoDays, "09:00", "paused") }

\* Those of them that are due every day at 09:00: they are tried against every
\* stock, balance and availability, the others against a full shelf and wallet.
Contending ==
    {d \in SecondAutoOrders :
        d.frequency = "daily" /\ d.time = "09:00" /\ d.status = "active"}

\* ----------------------------------------------------------------- state

VARIABLES
    today,                \* the IST calendar date of the real time
    users,                \* collection "users"
    menuItems,            \* collection "menuItems"
    autoOrders,           \* collection "autoOrders"
    orders,               \* collection "orders", in commit order
    walletTransactions,   \* collection "walletTransactions"
    notifications,        \* collection "notifications"
    autoOrderExecutions,  \* collection "autoOrderExecutions"
    run,                  \* the locals of each invocation of executeAutoOrders
    result,               \* the AutoOrderResult the last step returned, if it returned
    overlapped,           \* history: some invocation started while another ran
    called,               \* a call of a pure part on its own: arguments and value
    initial               \* history: the balances and the stocks at first

store == <<users, menuItems, autoOrders, orders, walletTransactions,
           notifications, autoOrderExecutions>>

vars == <<today, users, menuItems, autoOrders, orders, walletTransactions,
          notifications, autoOrderExecutions, run, result, overlapped,
          called, initial>>

\* ------------------------------------------------------------ pure parts

\* n.toString().padStart(2, "0")
Pad2(n) == IF n < 10 THEN "0" \o ToString(n) ELSE ToString(n)

\* getIST: `date` is a Date, the milliseconds since 1970-01-01T00:00Z (a
\* Thursday, getUTCDay() 4).  dateStr stands for the YYYY-MM-DD of the IST
\* day as the count of days since 1970-01-01: day 1 is 1970-01-02.
getIST(date) ==
    LET ist == date + IST_OFFSET_MS
        hh == Pad2((ist \div HourMs) % 24)
        mm == Pad2((ist \div MinuteMs) % 60)
        day == DAY_MAP[((ist \div DayMs) + 4) % 7]
    IN [time |-> hh \o ":" \o mm, day |-> day, dateStr |-> ist \div DayMs]

\* The day-of-week check of one candidate.
ShouldRun(autoOrder, ist) ==
    IF autoOrder.frequency = "daily" THEN TRUE
    ELSE IF autoOrder.frequency = "weekdays" THEN ist.day \in WEEKDAYS
    ELSE IF autoOrder.frequency = "custom" /\ autoOrder.customDays.isArray
         THEN ist.day \in autoOrder.customDays.days
    ELSE FALSE

\* The duplicate guard left out.
GuardOff(autoOrder, ist) == FALSE

\* The duplicate guard comparing the wrong way.
GuardLater(autoOrder, ist) == autoOrder.lastExecutedDate > ist.dateStr

\* The duplicate guard, on the candidate as the query returned it.
AlreadyRanToday(autoOrder, ist) == autoOrder.lastExecutedDate = ist.dateStr

Total(autoOrder) == autoOrder.itemPrice * autoOrder.quantity

\* menuItemData.available !== false
IsAvailable(menuItemDoc) == menuItemDoc.available # "false"

\* The stock check passing whatever the stock.
StockNotChecked(currentStock, quantity) == FALSE

\* The stock check failing on a negative stock only.
StockBelowZero(currentStock, quantity) == currentStock < 0

\* 4. Check stock quantity
InsufficientStock(currentStock, quantity) == currentStock < quantity

\* The balance check passing whatever the balance.
BalanceNotChecked(walletBalance, total) == FALSE

\* 5. Check wallet balance
InsufficientBalance(walletBalance, total) == walletBalance < total

\* The validation with the balance checked before the item.
ValidateBalanceFirst(userDoc, menuItemDoc, autoOrder) ==
    IF ~userDoc.exists THEN "USER_NOT_FOUND"
    ELSE IF ~menuItemDoc.exists THEN "ITEM_NOT_FOUND"
    ELSE IF InsufficientBalance(userDoc.walletBalance, Total(autoOrder))
         THEN "INSUFFICIENT_BALANCE"
    ELSE IF ~IsAvailable(menuItemDoc) THEN "ITEM_UNAVAILABLE"
    ELSE IF InsufficientStock(menuItemDoc.quantity, autoOrder.quantity)
         THEN "INSUFFICIENT_STOCK"
    ELSE "OK"

\* What the transaction body throws on the documents it read, "OK" when it
\* reaches the write phase.
Validate(userDoc, menuItemDoc, autoOrder) ==
    IF ~userDoc.exists THEN "USER_NOT_FOUND"
    ELSE IF ~menuItemDoc.exists THEN "ITEM_NOT_FOUND"
    ELSE IF ~IsAvailable(menuItemDoc) THEN "ITEM_UNAVAILABLE"
    ELSE IF InsufficientStock(menuItemDoc.quantity, autoOrder.quantity)
         THEN "INSUFFICIENT_STOCK"
    ELSE IF InsufficientBalance(userDoc.walletBalance, Total(autoOrder))
         THEN "INSUFFICIENT_BALANCE"
    ELSE "OK"

\* The catch block of one candidate: the string pushed to errors.
ErrorString(autoOrderId, errMsg) ==
    IF errMsg = "INSUFFICIENT_BALANCE" THEN <<autoOrderId, "insufficient balance">>
    ELSE IF errMsg = "USER_NOT_FOUND" THEN <<autoOrderId, "user not found">>
    ELSE IF errMsg = "ITEM_NOT_FOUND" THEN <<autoOrderId, "menu item not found">>
    ELSE IF errMsg = "ITEM_UNAVAILABLE" THEN <<autoOrderId, "item unavailable">>
    ELSE IF errMsg = "INSUFFICIENT_STOCK" THEN <<autoOrderId, "insufficient stock">>
    ELSE <<autoOrderId, errMsg>>

\* The query without its status filter.
RECURSIVE MatchingAnyStatus(_, _)
MatchingAnyStatus(queryTime, k) ==
    IF k > Len(AutoOrderIds) THEN <<>>
    ELSE LET id == AutoOrderIds[k]
             rest == MatchingAnyStatus(queryTime, k + 1)
         IN IF autoOrders[id].time = queryTime
            THEN <<[id |-> id, data |-> autoOrders[id]]>> \o rest
            ELSE rest

\* The query of step 3: the ids of the active auto orders of one time, in
\* document-id order.
RECURSIVE Matching(_, _)
Matching(queryTime, k) ==
    IF k > Len(AutoOrderIds) THEN <<>>
    ELSE LET id == AutoOrderIds[k]
             rest == Matching(queryTime, k + 1)
         IN IF autoOrders[id].status = "active" /\ autoOrders[id].time = queryTime
            THEN <<[id |-> id, data |-> autoOrders[id]]>> \o rest
            ELSE rest

\* ------------------------------------------------- locals of one invocation

NoIst == [time |-> "", day |-> "", dateStr |-> NoDate]

\* ist as the loop keeps it: ist.time is read for queryTime (and the log) only,
\* the loop reads ist.day and ist.dateStr.
InLoop(ist) == [ist EXCEPT !.time = ""]

\* An invocation is suspended at its awaits only; what it does between two
\* awaits touches nothing but its locals and is one step.  pc: "idle" outside
\* a call, "txn" awaiting the reads of the transaction body, "commit" awaiting
\* the commit of a body that returned.  outcomes lists what became of each
\* candidate visited; ordersAtStart and executionsAtStart are the sizes of the
\* two collections when the candidates were queried.
IdleRun ==
    [pc |-> "idle", ist |-> NoIst, queryTime |-> "", docs |-> <<>>, i |-> 0,
     processed |-> 0, succeeded |-> 0, failed |-> 0, skipped |-> 0,
     errors |-> <<>>, outcomes |-> <<>>, userDoc |-> NoUser,
     menuItemDoc |-> NoItem, ordersAtStart |-> 0, executionsAtStart |-> 0]

NoResult == <<>>

\* No pure part called on its own.
NoCall == <<>>

\* An invocation returns res; locals are its locals at the return.
Returned(res, l) == <<[value |-> res, locals |-> l]>>

\* The candidate the loop of invocation r is at.
Cur(r) == run[r].docs[run[r].i]

Running(r) == run[r].pc \in {"txn", "commit"}

\* ------------------------------------------------------------------ Init

Init ==
    /\ today = 1
    /\ \E bal \in 0..MaxBalance, qty \in 0..MaxStock,
          av \in {"true", "false", Absent}, second \in SecondAutoOrders :
          /\ second \in Contending
               \/ (bal = MaxBalance /\ qty = MaxStock /\ av = "true")
          /\ users = [u \in Users |->
                        IF u = "u1" THEN [exists |-> TRUE, walletBalance |-> bal]
                        ELSE NoUser]
          /\ menuItems = [it \in Items |->
                            IF it = "i1"
                            THEN [exists |-> TRUE, quantity |-> qty,
                                  available |-> av]
                            ELSE NoItem]
          /\ autoOrders = [id \in AutoOrderIdSet |->
                             IF id = "a1"
                             THEN AutoOrderDoc("u1", "i1", 1, 1, "daily", NoDays,
                                               "09:00", "active")
                             ELSE second]
    /\ orders = <<>>
    /\ walletTransactions = <<>>
    /\ notifications = <<>>
    /\ autoOrderExecutions = <<>>
    /\ run = [r \in Runs |-> IdleRun]
    /\ result = NoResult
    /\ overlapped = FALSE
    /\ called = NoCall
    /\ initial = [walletBalance |-> [u \in Users |-> users[u].walletBalance],
                  quantity |-> [it \in Items |-> menuItems[it].quantity]]

\* ------------------------------------------------------- start of a run

\* Step 1 fails: adminDb is not initialised.
InitFailed(r) ==
    /\ ~Running(r)
    /\ run' = [run EXCEPT ![r] = IdleRun]
    /\ result' = Returned(
          [success |-> FALSE, time |-> "??:??", day |-> "Mon", date |-> NoDate,
           candidates |-> 0, skipped |-> 0, processed |-> 0, succeeded |-> 0,
           failed |-> 0, errors |-> <<<<"", "Firebase Admin SDK init failed">>>>,
           message |-> "Firebase Admin SDK is not working"], IdleRun)
    /\ UNCHANGED <<initial, called, today, store, overlapped>>

\* The result of the outer catch block.
FatalResult(ist, queryTime, msg) ==
    [success |-> FALSE, time |-> queryTime, day |-> ist.day, date |-> ist.dateStr,
     candidates |-> 0, skipped |-> 0, processed |-> 0, succeeded |-> 0,
     failed |-> 0, errors |-> <<<<"", msg>>>>, message |-> msg]

\* The empty snapshot reported as an error.
EmptyResultAsError(ist, queryTime) ==
    FatalResult(ist, queryTime, "No active auto orders")

\* The result of an empty snapshot.
EmptyResult(ist, queryTime) ==
    [success |-> TRUE, time |-> queryTime, day |-> ist.day, date |-> ist.dateStr,
     candidates |-> 0, skipped |-> 0, processed |-> 0, succeeded |-> 0,
     failed |-> 0, errors |-> <<>>,
     message |-> "No active auto orders for " \o queryTime \o " IST"]

\* The clock's time whatever the override.
QueryTimeOfClock(overrideTime, ist) == ist.time

\* overrideTime || ist.time
QueryTime(overrideTime, ist) ==
    IF overrideTime # NoOverride THEN overrideTime ELSE ist.time

\* The overrides a caller passes: the cron route none, the manual endpoint any.
Overrides(r) == IF r = "cron" THEN {NoOverride} ELSE SlotSet \cup {NoOverride}

\* new Date() during the slot-th minute the model distinguishes of the IST
\* day `today`.
Now(slot) == today * DayMs + SlotMinutes[slot] * MinuteMs - IST_OFFSET_MS

\* Step 2 of a call with overrideTime during the slot-th minute: what the
\* rest of the call keeps of the clock and of overrideTime.
Call(overrideTime, slot) ==
    [ist |-> InLoop(getIST(Now(slot))),
     queryTime |-> QueryTime(overrideTime, getIST(Now(slot)))]

\* Step 2 of a call by r now, for every minute of today and every override.
Calls(r) ==
    {Call(overrideTime, slot) :
        overrideTime \in Overrides(r), slot \in 1..Len(Slots)}

\* Steps 2 and 3 with the query throwing: the outer catch returns.
QueryFailed(r) ==
    /\ ~Running(r)
    /\ \E call \in Calls(r) :
          LET ist == call.ist
              queryTime == call.queryTime
          IN /\ run' = [run EXCEPT ![r] = IdleRun]
             /\ result' = Returned(FatalResult(ist, queryTime, "query failed"),
                                   IdleRun)
    /\ UNCHANGED <<initial, called, today, store, overlapped>>

\* The result built after the loop, unsuccessful when a candidate failed.
SummaryUnsuccessful(l) ==
    [success |-> l.failed = 0, time |-> l.queryTime, day |-> l.ist.day,
     date |-> l.ist.dateStr, candidates |-> Len(l.docs), skipped |-> l.skipped,
     processed |-> l.processed, succeeded |-> l.succeeded, failed |-> l.failed,
     errors |-> l.errors, message |-> Absent]

\* The result built after the loop.
Summary(l) ==
    [success |-> TRUE, time |-> l.queryTime, day |-> l.ist.day,
     date |-> l.ist.dateStr, candidates |-> Len(l.docs), skipped |-> l.skipped,
     processed |-> l.processed, succeeded |-> l.succeeded, failed |-> l.failed,
     errors |-> l.errors, message |-> Absent]

\* The locals after the candidate at hand ended with `outcome`.
NextCandidate(l, outcome) ==
    [l EXCEPT !.i = @ + 1, !.outcomes = Append(@, outcome),
              !.userDoc = NoUser, !.menuItemDoc = NoItem]

\* The for loop counting a candidate as processed before the duplicate guard.
RECURSIVE LoopCountsGuarded(_)
LoopCountsGuarded(l) ==
    IF l.i > Len(l.docs) THEN [l EXCEPT !.pc = "idle"]
    ELSE LET autoOrder == l.docs[l.i].data
         IN IF ~ShouldRun(autoOrder, l.ist)
            THEN LoopCountsGuarded([NextCandidate(l, "not scheduled")
                                       EXCEPT !.skipped = @ + 1])
            ELSE IF AlreadyRanToday(autoOrder, l.ist)
            THEN LoopCountsGuarded([NextCandidate(l, "already ran")
                                       EXCEPT !.skipped = @ + 1,
                                              !.processed = @ + 1])
            ELSE [l EXCEPT !.processed = @ + 1, !.pc = "txn"]

\* The for loop from its head to its next await: the day-of-week check and
\* the duplicate guard skip candidates; the first one they let through is
\* counted as processed and its transaction starts ("txn"); with none left
\* the loop is over ("idle").
RECURSIVE Loop(_)
Loop(l) ==
    IF l.i > Len(l.docs) THEN [l EXCEPT !.pc = "idle"]
    ELSE LET autoOrder == l.docs[l.i].data
         IN IF ~ShouldRun(autoOrder, l.ist)
            THEN Loop([NextCandidate(l, "not scheduled") EXCEPT !.skipped = @ + 1])
            ELSE IF AlreadyRanToday(autoOrder, l.ist)
            THEN Loop([NextCandidate(l, "already ran") EXCEPT !.skipped = @ + 1])
            ELSE [l EXCEPT !.processed = @ + 1, !.pc = "txn"]

\* Invocation r goes on with the locals l: suspended at the next transaction,
\* or returning the summary.
Continue(r, l) ==
    IF l.pc = "idle"
    THEN /\ run' = [run EXCEPT ![r] = IdleRun]
         /\ result' = Returned(Summary(l), l)
    ELSE /\ run' = [run EXCEPT ![r] = l]
         /\ result' = NoResult

\* Steps 1 to 3 and the loop up to its first transaction: the clock is read,
\* the candidates are queried; an empty snapshot returns at once.
StartWith(r, call) ==
    LET ist == call.ist
        queryTime == call.queryTime
        docs == Matching(queryTime, 1)
        started == [IdleRun EXCEPT !.ist = ist,
                                   !.queryTime = queryTime,
                                   !.docs = docs,
                                   !.ordersAtStart = Len(orders),
                                   !.executionsAtStart = Len(autoOrderExecutions)]
    IN IF docs = <<>>
       THEN /\ run' = [run EXCEPT ![r] = IdleRun]
            /\ result' = Returned(EmptyResult(ist, queryTime), started)
            /\ UNCHANGED overlapped
       ELSE /\ Continue(r, Loop([started EXCEPT !.i = 1]))
            /\ overlapped' = (overlapped \/ \E q \in Runs \ {r} : Running(q))

StartRun(r) ==
    /\ ~Running(r)
    /\ \E call \in Calls(r) : StartWith(r, call)
    /\ UNCHANGED <<initial, called, today, store>>

\* ------------------------------------------------------ the transaction

\* A write set: what a transaction body has issued when it ends.  Each part
\* holds no write or one.
NoWrites ==
    [menuItem |-> <<>>, walletIncrement |-> <<>>, order |-> <<>>,
     walletTransaction |-> <<>>, notification |-> <<>>, execution |-> <<>>,
     tracking |-> <<>>]

\* The writes of the three validation failures that log: an execution record
\* and the tracking update of the auto order.
FailureWrites(errMsg, autoOrderId, autoOrder, ist) ==
    IF errMsg \in {"ITEM_UNAVAILABLE", "INSUFFICIENT_STOCK", "INSUFFICIENT_BALANCE"}
    THEN [NoWrites EXCEPT
            !.execution = <<[autoOrderId |-> autoOrderId,
                             userId |-> autoOrder.userId, orderId |-> 0,
                             success |-> FALSE, failureReason |-> errMsg,
                             amountDeducted |-> 0, stockBefore |-> 0,
                             stockAfter |-> 0, executedAt |-> ist.dateStr]>>,
            !.tracking = <<[lastExecutedDate |-> ist.dateStr,
                            totalExecutions |-> 0, totalFailures |-> 1,
                            lastFailureReason |-> errMsg]>>]
    ELSE NoWrites

\* The stock written back less one unit, whatever the quantity ordered.
NewStockLessOne(currentStock, quantity) == currentStock - 1

\* W1: the stock written back.
NewStock(currentStock, quantity) == currentStock - quantity

\* The available flag left true whatever the stock.
AvailableAlways(newStock) == "true"

\* W1: available: newStock > 0
Available(newStock) == IF newStock > 0 THEN "true" ELSE "false"

\* W5 left out of the transaction.
NotificationDropped(autoOrder, orderId) == <<>>

\* W5: the notification document.
Notification(autoOrder, orderId) ==
    <<[userId |-> autoOrder.userId, orderId |-> orderId, type |-> "auto_order"]>>

\* The write phase W1..W7.
SuccessWrites(autoOrderId, autoOrder, menuItemDoc, ist, orderId) ==
    LET total == Total(autoOrder)
        currentStock == menuItemDoc.quantity
        newStock == NewStock(currentStock, autoOrder.quantity)
    IN [menuItem |-> <<[menuItemDoc EXCEPT
                          !.quantity = newStock,
                          !.available = Available(newStock)]>>,
        walletIncrement |-> <<0 - total>>,
        order |-> <<[orderId |-> orderId, userId |-> autoOrder.userId,
                     itemId |-> autoOrder.itemId, price |-> autoOrder.itemPrice,
                     quantity |-> autoOrder.quantity, total |-> total,
                     status |-> "pending", autoOrderId |-> autoOrderId,
                     createdAt |-> ist.dateStr]>>,
        walletTransaction |-> <<[userId |-> autoOrder.userId, type |-> "debit",
                                 amount |-> total, orderId |-> orderId]>>,
        notification |-> Notification(autoOrder, orderId),
        execution |-> <<[autoOrderId |-> autoOrderId,
                         userId |-> autoOrder.userId, orderId |-> orderId,
                         success |-> TRUE, failureReason |-> Absent,
                         amountDeducted |-> total, stockBefore |-> currentStock,
                         stockAfter |-> newStock, executedAt |-> ist.dateStr]>>,
        tracking |-> <<[lastExecutedDate |-> ist.dateStr, totalExecutions |-> 1,
                        totalFailures |-> 0, lastFailureReason |-> Absent]>>]

\* What runTransaction makes durable of the writes issued: all of them when
\* the body returned, none when it threw.
Durable(writes, threw) == IF threw THEN NoWrites ELSE writes

\* The store after the write set w of a transaction on user u, item it and
\* auto order id.
Apply(w, u, it, id) ==
    /\ menuItems' = IF w.menuItem = <<>> THEN menuItems
                    ELSE [menuItems EXCEPT ![it] = w.menuItem[1]]
    /\ users' = IF w.walletIncrement = <<>> THEN users
                ELSE [users EXCEPT ![u].walletBalance = @ + w.walletIncrement[1]]
    /\ orders' = orders \o w.order
    /\ walletTransactions' = walletTransactions \o w.walletTransaction
    /\ notifications' = notifications \o w.notification
    /\ autoOrderExecutions' = autoOrderExecutions \o w.execution
    /\ autoOrders' =
         IF w.tracking = <<>> THEN autoOrders
         ELSE LET t == w.tracking[1]
              IN [autoOrders EXCEPT
                    ![id].lastExecutedDate = t.lastExecutedDate,
                    ![id].totalExecutions = @ + t.totalExecutions,
                    ![id].totalFailures = @ + t.totalFailures,
                    ![id].lastFailureReason =
                        IF t.totalFailures > 0 THEN t.lastFailureReason ELSE @]

\* The reads done outside the transaction: no commit is ever refused.
NoConflict(userNow, userRead, menuItemNow, menuItemRead) == FALSE

\* The store refuses a commit when a document the transaction read has been
\* written since; runTransaction then runs the body again.
Conflict(userNow, userRead, menuItemNow, menuItemRead) ==
    userNow # userRead \/ menuItemNow # menuItemRead

\* generateOrderId(): an id no order has yet.
generateOrderId == Len(orders) + 1

\* The catch block leaving the loop at the candidate that failed.
CaughtRetried(l, autoOrderId, errMsg) ==
    [l EXCEPT !.errors = Append(@, ErrorString(autoOrderId, errMsg)),
              !.failed = @ + 1, !.processed = @ - 1,
              !.userDoc = NoUser, !.menuItemDoc = NoItem]

\* The catch block pushing the error without counting it.
CaughtUncounted(l, autoOrderId, errMsg) ==
    [NextCandidate(l, errMsg) EXCEPT
        !.errors = Append(@, ErrorString(autoOrderId, errMsg))]

\* The catch block: the error is pushed and failed is counted.
Caught(l, autoOrderId, errMsg) ==
    [NextCandidate(l, errMsg) EXCEPT
        !.errors = Append(@, ErrorString(autoOrderId, errMsg)),
        !.failed = @ + 1]

\* ------------------------------------------------------ the awaited steps

\* One run of the transaction body: the user and the menu item are read; a
\* failed validation issues its writes and throws, which rolls the transaction
\* back and lands in the catch block, and the loop goes on; a passed one leaves
\* the write phase to be committed.
TxnBody(r) ==
    /\ run[r].pc = "txn"
    /\ LET l == run[r]
           autoOrderId == Cur(r).id
           autoOrder == Cur(r).data
           userDoc == users[autoOrder.userId]
           menuItemDoc == menuItems[autoOrder.itemId]
           errMsg == Validate(userDoc, menuItemDoc, autoOrder)
       IN IF errMsg # "OK"
          THEN /\ Apply(Durable(FailureWrites(errMsg, autoOrderId, autoOrder,
                                              l.ist), TRUE),
                        autoOrder.userId, autoOrder.itemId, autoOrderId)
               /\ Continue(r, Loop(Caught(l, autoOrderId, errMsg)))
          ELSE /\ run' = [run EXCEPT ![r] =
                     [l EXCEPT !.pc = "commit", !.userDoc = userDoc,
                               !.menuItemDoc = menuItemDoc]]
               /\ result' = NoResult
               /\ UNCHANGED store
    /\ UNCHANGED <<initial, called, today, overlapped>>

\* The commit of a body that returned: refused on conflict, and the body runs
\* again; otherwise W1..W7 become durable together, succeeded is counted and
\* the loop goes on.
TxnCommit(r) ==
    /\ run[r].pc = "commit"
    /\ LET l == run[r]
           autoOrderId == Cur(r).id
           autoOrder == Cur(r).data
       IN IF Conflict(users[autoOrder.userId], l.userDoc,
                      menuItems[autoOrder.itemId], l.menuItemDoc)
          THEN /\ run' = [run EXCEPT ![r] =
                     [l EXCEPT !.pc = "txn", !.userDoc = NoUser,
                               !.menuItemDoc = NoItem]]
               /\ result' = NoResult
               /\ UNCHANGED store
          ELSE /\ Apply(Durable(SuccessWrites(autoOrderId, autoOrder,
                                              l.menuItemDoc, l.ist,
                                              generateOrderId), FALSE),
                        autoOrder.userId, autoOrder.itemId, autoOrderId)
               /\ Continue(r, Loop([NextCandidate(l, "succeeded")
                                       EXCEPT !.succeeded = @ + 1]))
    /\ UNCHANGED <<initial, called, today, overlapped>>

\* runTransaction rejects with an error of the store (it is unreachable, or
\* it gave up after its retries): nothing is written, the catch block takes
\* the else branch and the loop goes on.
TxnRejected(r) ==
    /\ run[r].pc \in {"txn", "commit"}
    /\ Continue(r, Loop(Caught(run[r], Cur(r).id, "store error")))
    /\ UNCHANGED <<initial, called, today, store, overlapped>>

\* Midnight IST passes.
Tick ==
    /\ today < MaxDay
    /\ today' = today + 1
    /\ result' = NoResult
    /\ UNCHANGED <<store, run, overlapped, called, initial>>

Next ==
    \/ \E r \in Runs : InitFailed(r)
    \/ \E r \in Runs : QueryFailed(r)
    \/ \E r \in Runs : StartRun(r)
    \/ \E r \in Runs : TxnBody(r)
    \/ \E r \in Runs : TxnCommit(r)
    \/ \E r \in Runs : TxnRejected(r)
    \/ Tick

Spec == Init /\ [][Next]_vars

\* The await of invocation r settles: the transaction body runs, its commit is
\* decided, or runTransaction rejects.
Settle(r) == TxnBody(r) \/ TxnCommit(r) \/ TxnRejected(r)

\* The calls that reach the loop, within one IST day.
NextLive ==
    \/ \E r \in Runs : StartRun(r)
    \/ \E r \in Runs : TxnBody(r)
    \/ \E r \in Runs : TxnCommit(r)
    \/ \E r \in Runs : TxnRejected(r)

\* The engine over a store whose transactions each eventually commit or
\* fail: an invocation suspended at an await is resumed.
SpecLive == Init /\ [][NextLive]_vars /\ \A r \in Runs : WF_vars(Settle(r))

\* ------------------------------------------------- the pure parts on their own

\* The Dates getIST is tried on: the first and the last millisecond of every
\* minute up to MaxMinute.
Dates == {m * MinuteMs + ms : m \in 0..MaxMinute, ms \in {0, MinuteMs - 1}}

\* The auto orders the day-of-week check is tried on: every frequency,
\* customDays missing or any set of days, never executed or executed on date d.
Frequencies == {"daily", "weekdays", "custom", "monthly"}

AllDays == {DAY_MAP[n] : n \in DOMAIN DAY_MAP}

Candidates(d) ==
    {[AutoOrderDoc("u1", "i1", 1, 1, freq, days, "09:00", "active")
         EXCEPT !.lastExecutedDate = last] :
        freq \in Frequencies,
        days \in {NoDays} \cup {Days(set) : set \in SUBSET AllDays},
        last \in {NoDate, d}}

\* The argument of a call of getIST, its value to come.
Pending(date) ==
    <<[date |-> date, done |-> FALSE, ist |-> NoIst, overrideTime |-> NoOverride]>>

\* No invocation under way, and either a Date for getIST over an empty store,
\* or any day of a week and a store whose one active auto order is any of
\* Candidates, its account and its item able to serve it.
InitPure ==
    /\ orders = <<>>
    /\ walletTransactions = <<>>
    /\ notifications = <<>>
    /\ autoOrderExecutions = <<>>
    /\ run = [r \in Runs |-> IdleRun]
    /\ result = NoResult
    /\ overlapped = FALSE
    /\ \/ /\ \E date \in Dates : called = Pending(date)
          /\ today = 1
          /\ users = [u \in Users |-> NoUser]
          /\ menuItems = [it \in Items |-> NoItem]
          /\ autoOrders = [id \in AutoOrderIdSet |->
                AutoOrderDoc("u1", "i1", 1, 1, "daily", NoDays, "09:00", "paused")]
       \/ /\ called = NoCall
          /\ today \in 1..Cardinality(AllDays)
          /\ users = [u \in Users |->
                        IF u = "u1" THEN [exists |-> TRUE, walletBalance |-> 1]
                        ELSE NoUser]
          /\ menuItems = [it \in Items |->
                            IF it = "i1"
                            THEN [exists |-> TRUE, quantity |-> 1,
                                  available |-> "true"]
                            ELSE NoItem]
          /\ \E autoOrder \in Candidates(today) :
                autoOrders = [id \in AutoOrderIdSet |->
                   IF id = "a1" THEN autoOrder
                   ELSE AutoOrderDoc("u1", "i1", 1, 1, "daily", NoDays, "09:00",
                                     "paused")]

    /\ initial = [walletBalance |-> [u \in Users |-> users[u].walletBalance],
                  quantity |-> [it \in Items |-> menuItems[it].quantity]]

\* getIST(date)
GetISTCalled ==
    /\ called # NoCall
    /\ ~called[1].done
    /\ called' = <<[called[1] EXCEPT !.done = TRUE,
                                     !.ist = getIST(called[1].date)]>>
    /\ UNCHANGED <<today, store, run, result, overlapped, initial>>

\* The first invocation on the store, up to its first await in the loop or
\* its return.
FirstRun(r) ==
    /\ called = NoCall
    /\ result = NoResult
    /\ \A q \in Runs : ~Running(q)
    /\ StartRun(r)

NextPure ==
    \/ GetISTCalled
    \/ \E r \in Runs : FirstRun(r)

SpecPure == InitPure /\ [][NextPure]_vars

\* ------------------------------------------- the manual endpoint overriding

\* The manual endpoint calls executeAutoOrders(overrideTime), once; `called`
\* keeps what the call was given and what its clock read.
OverrideRun ==
    /\ called = NoCall
    /\ ~Running("manual")
    /\ \E overrideTime \in SlotSet, slot \in 1..Len(Slots) :
          /\ StartWith("manual", Call(overrideTime, slot))
          /\ called' = <<[date |-> Now(slot), done |-> TRUE,
                          ist |-> getIST(Now(slot)),
                          overrideTime |-> overrideTime]>>
    /\ UNCHANGED <<today, store, initial>>

\* The cron route and one overriding manual call.
NextOverride ==
    \/ OverrideRun
    \/ StartRun("cron")
    \/ \E r \in Runs : TxnBody(r)
    \/ \E r \in Runs : TxnCommit(r)
    \/ \E r \in Runs : TxnRejected(r)
    \/ Tick

SpecOverride == Init /\ [][NextOverride]_vars

\* ---------------------------------------------------------------- claims

Last(seq) == seq[Len(seq)]

\* Invocation r took the step.
Stepped(r) == run'[r] # run[r]

\* The locals of invocation r after the step, also when it returned in it.
After(r) ==
    IF Running(r) /\ run'[r].pc = "idle" THEN result'[1].locals ELSE run'[r]

\* The locals a reader of the state can see: those of the invocations under
\* way and those of the one that has just returned.
Visible ==
    {run[r] : r \in {q \in Runs : Running(q)}}
        \cup (IF result # NoResult THEN {result[1].locals} ELSE {})

\* The skip outcomes and the validation failures that log.
Skips == {"not scheduled", "already ran"}

LoggedFailures == {"ITEM_UNAVAILABLE", "INSUFFICIENT_STOCK", "INSUFFICIENT_BALANCE"}

\* A step shows none of the seven artifacts of a commit.
NoneOfSeven ==
    /\ menuItems' = menuItems
    /\ users' = users
    /\ orders' = orders
    /\ walletTransactions' = walletTransactions
    /\ notifications' = notifications
    /\ \A k \in DOMAIN autoOrderExecutions' :
          k > Len(autoOrderExecutions) => ~autoOrderExecutions'[k].success
    /\ \A id \in AutoOrderIdSet :
          autoOrders'[id].totalExecutions = autoOrders[id].totalExecutions

\* A step shows all seven, of one candidate.
AllSeven ==
    /\ Len(orders') = Len(orders) + 1
    /\ Len(walletTransactions') = Len(walletTransactions) + 1
    /\ Len(notifications') = Len(notifications) + 1
    /\ Len(autoOrderExecutions') = Len(autoOrderExecutions) + 1
    /\ LET o == Last(orders')
       IN /\ Last(walletTransactions').orderId = o.orderId
          /\ Last(notifications').orderId = o.orderId
          /\ Last(autoOrderExecutions').orderId = o.orderId
          /\ Last(autoOrderExecutions').success
          /\ menuItems'[o.itemId].quantity < menuItems[o.itemId].quantity
          /\ users'[o.userId].walletBalance < users[o.userId].walletBalance
          /\ autoOrders'[o.autoOrderId].totalExecutions =
                autoOrders[o.autoOrderId].totalExecutions + 1
          /\ autoOrders'[o.autoOrderId].lastExecutedDate = o.createdAt

\* C1: between any two states a reader can see, the stock decrement, the
\* balance decrement, the Order, the LedgerEntry, the Notification, the
\* successful ExecutionAudit and the tracking update (lastExecutedDate,
\* totalExecutions + 1) of a candidate appear all together or not at all.
C1_AllOrNothing == [][NoneOfSeven \/ AllSeven]_vars

\* An order is committed while the other invocation is under way and reads.
C1_Witness == Len(orders) >= 1 /\ \E r \in Runs : Running(r)

\* The documents of the candidate of r, as they are now, fail a check.
Failing(r) ==
    LET autoOrder == Cur(r).data
        userDoc == users[autoOrder.userId]
        menuItemDoc == menuItems[autoOrder.itemId]
    IN \/ ~userDoc.exists
       \/ ~menuItemDoc.exists
       \/ menuItemDoc.available = "false"
       \/ menuItemDoc.quantity < autoOrder.quantity
       \/ userDoc.walletBalance < autoOrder.itemPrice * autoOrder.quantity

\* C2: a step of an invocation whose candidate's account or item is missing,
\* unavailable, short of stock or short of balance leaves every item (quantity,
\* available) and every balance as it was and creates no Order, LedgerEntry
\* or Notification.
C2_AbortChangesNothing ==
    [][\A r \in Runs :
          (Running(r) /\ Stepped(r) /\ Failing(r)) =>
              /\ menuItems' = menuItems
              /\ users' = users
              /\ orders' = orders
              /\ walletTransactions' = walletTransactions
              /\ notifications' = notifications]_vars

\* A run has returned an insufficient-balance failure of a2: stock is there,
\* the balance is short, and nothing was ordered.
C2_Witness ==
    /\ result # NoResult
    /\ \E k \in DOMAIN result[1].value.errors :
          result[1].value.errors[k] = <<"a2", "insufficient balance">>
    /\ menuItems["i1"].quantity = MaxStock
    /\ users["u1"].walletBalance = 1
    /\ orders = <<>>

\* The orders created for auto order id by runs of calendar date d.
OrdersOn(id, d) ==
    {k \in DOMAIN orders : orders[k].autoOrderId = id /\ orders[k].createdAt = d}

\* C3 as stated: under any sequence of runs, overlapping ones included, at
\* most one Order is created for one RecurringOrder on one calendar date.
C3_AtMostOncePerDate ==
    \A id \in AutoOrderIdSet, d \in 1..MaxDay : Cardinality(OrdersOn(id, d)) <= 1

\* C3 as amended: as long as no invocation has started while another was
\* under way, at most one Order is created for one RecurringOrder on one
\* calendar date.
C3_AtMostOnceWithoutOverlap ==
    ~overlapped =>
        \A id \in AutoOrderIdSet, d \in 1..MaxDay :
            Cardinality(OrdersOn(id, d)) <= 1

\* Without overlap, a run returns having met the duplicate guard on an auto
\* order that has its order of today.
C3_Witness ==
    /\ ~overlapped
    /\ result # NoResult
    /\ \E j \in DOMAIN result[1].locals.outcomes :
          /\ result[1].locals.outcomes[j] = "already ran"
          /\ OrdersOn(result[1].locals.docs[j].id, today) # {}

\* C4: no walletBalance is negative.
C4_BalanceNeverNegative == \A u \in Users : users[u].walletBalance >= 0

\* Two overlapping invocations have debited the same account down to zero.
C4_Witness ==
    /\ overlapped
    /\ Len(orders) = 2
    /\ orders[1].userId = orders[2].userId
    /\ users[orders[1].userId].walletBalance = 0

\* The commits before the k-th that took stock of the same item.
EarlierOnItem(k) == {j \in 1..(k - 1) : orders[j].itemId = orders[k].itemId}

Max(set) == CHOOSE m \in set : \A n \in set : n <= m

\* C5: no quantity is negative, and every committed decrement was taken from
\* the stock it was checked against: the stock a commit found is the stock the
\* commit before it on that item left, it leaves that stock less the quantity
\* ordered, never less than 0, and the item holds what the last commit left.
C5_StockNeverNegative ==
    /\ \A it \in Items : menuItems[it].quantity >= 0
    /\ \A k \in DOMAIN orders :
          LET e == autoOrderExecutions[k]
          IN /\ e.stockAfter = e.stockBefore - orders[k].quantity
             /\ e.stockAfter >= 0
             /\ EarlierOnItem(k) # {} =>
                   e.stockBefore =
                       autoOrderExecutions[Max(EarlierOnItem(k))].stockAfter
             /\ (\A j \in DOMAIN orders : j > k => orders[j].itemId # orders[k].itemId)
                   => menuItems[orders[k].itemId].quantity = e.stockAfter

\* Two candidates of overlapping invocations have emptied the same shelf.
C5_Witness ==
    /\ overlapped
    /\ Len(orders) = 2
    /\ orders[1].itemId = orders[2].itemId
    /\ orders[1].autoOrderId # orders[2].autoOrderId
    /\ menuItems[orders[1].itemId].quantity = 0

\* The query of invocation l found the auto order of its j-th candidate with
\* an order of the run's date already committed.
ExecutedBefore(l, j) ==
    \E k \in 1..l.ordersAtStart :
        /\ orders[k].autoOrderId = l.docs[j].id
        /\ orders[k].createdAt = l.ist.dateStr

\* A candidate read with lastExecutedDate equal to the run's date is skipped.
GuardedIsSkipped ==
    \A l \in Visible : \A j \in DOMAIN l.outcomes :
        l.docs[j].data.lastExecutedDate = l.ist.dateStr => l.outcomes[j] \in Skips

\* Without overlap, a run in which no candidate got past the two guards has
\* left the orders as its query found them.
SkippingRunChangesNothing ==
    (~overlapped /\ result # NoResult) =>
        LET l == result[1].locals
        IN (/\ result[1].value.success
            /\ \A j \in DOMAIN l.outcomes : l.outcomes[j] \in Skips) =>
               /\ Len(orders) = l.ordersAtStart
               /\ Len(autoOrderExecutions) = l.executionsAtStart

\* The step is the start of an invocation that found candidates, while no
\* other invocation is under way.
StartsAlone ==
    /\ \A q \in Runs : ~Running(q)
    /\ IF run' = run
       THEN result' # NoResult /\ result'[1].locals.docs # <<>>
       ELSE \E r \in Runs : run'[r].pc # "idle"

\* The locals of the invocation that starts in the step, at the first await of
\* its loop or at its return.
Started ==
    IF run' = run THEN result'[1].locals
    ELSE run'[CHOOSE r \in Runs : run'[r].pc # "idle"]

\* The candidates the loop of l has skipped, and the one it attempts.
SkippedBy(l) == {j \in DOMAIN l.outcomes : l.outcomes[j] \in Skips}

AttemptedBy(l) ==
    {j \in DOMAIN l.outcomes : l.outcomes[j] \notin Skips}
        \cup (IF l.pc = "idle" THEN {} ELSE {l.i})

C7_FailedNotRetriedToday ==
    \A l \in Visible : \A j \in DOMAIN l.outcomes :
        (l.outcomes[j] \in LoggedFailures /\ l.ist.dateStr = today) =>
            AlreadyRanToday(autoOrders[l.docs[j].id], l.ist)

\* The execution records of the run with locals l for its j-th candidate.
ExecutionsOf(l, j) ==
    {k \in DOMAIN autoOrderExecutions :
        /\ k > l.executionsAtStart
        /\ autoOrderExecutions[k].autoOrderId = l.docs[j].id
        /\ autoOrderExecutions[k].executedAt = l.ist.dateStr}

\* C8: when a run returns, every candidate it attempted has an execution
\* record of that run (exactly one when no other run was about): success and
\* the order id for a success, else the failure reason, with the failure
\* counter and lastFailureReason of the auto order set.
C8_AuditPerAttempt ==
    result # NoResult =>
        LET l == result[1].locals
        IN \A j \in DOMAIN l.outcomes :
              l.outcomes[j] \notin Skips =>
                  /\ ExecutionsOf(l, j) # {}
                  /\ ~overlapped => Cardinality(ExecutionsOf(l, j)) = 1
                  /\ \A k \in ExecutionsOf(l, j) :
                        LET e == autoOrderExecutions[k]
                        IN IF l.outcomes[j] = "succeeded"
                           THEN e.success /\ e.orderId > 0
                           ELSE /\ ~e.success
                                /\ e.failureReason # Absent
                                /\ autoOrders[l.docs[j].id].totalFailures > 0
                                /\ autoOrders[l.docs[j].id].lastFailureReason
                                      # Absent

\* The five checks in the order stated, on an account, an item and a
\* RecurringOrder: the error kind, the text reported, whether the check fails.
Checks(userDoc, menuItemDoc, autoOrder) ==
    << [kind |-> "USER_NOT_FOUND", text |-> "user not found",
        fails |-> ~userDoc.exists],
       [kind |-> "ITEM_NOT_FOUND", text |-> "menu item not found",
        fails |-> ~menuItemDoc.exists],
       [kind |-> "ITEM_UNAVAILABLE", text |-> "item unavailable",
        fails |-> menuItemDoc.available = "false"],
       [kind |-> "INSUFFICIENT_STOCK", text |-> "insufficient stock",
        fails |-> menuItemDoc.quantity < autoOrder.quantity],
       [kind |-> "INSUFFICIENT_BALANCE", text |-> "insufficient balance",
        fails |-> userDoc.walletBalance
                      < autoOrder.itemPrice * autoOrder.quantity] >>

\* The checks that fail on the documents of the candidate of r as they are now.
FailingChecks(r) ==
    LET autoOrder == Cur(r).data
        c == Checks(users[autoOrder.userId], menuItems[autoOrder.itemId], autoOrder)
    IN {k \in DOMAIN c : c[k].fails}

\* The earliest of them.
FirstFailing(r) ==
    LET autoOrder == Cur(r).data
        c == Checks(users[autoOrder.userId], menuItems[autoOrder.itemId], autoOrder)
    IN c[CHOOSE k \in FailingChecks(r) : \A n \in FailingChecks(r) : k <= n]

\* What the step made of the candidate of r, "pending" when it is still at it.
Outcome(r) ==
    IF Len(After(r).outcomes) >= run[r].i THEN After(r).outcomes[run[r].i]
    ELSE "pending"

\* The step ended the candidate of r with an error of the store itself.
StoreError(r) == Outcome(r) = "store error"

\* C9: a step of the atomic operation of a candidate, the store answering,
\* ends it with the kind and the text of the earliest check that fails on the
\* account and the item as they are, and goes on to the commit when none
\* fails (an absent available flag fails nothing); and a commit happens
\* only when none of the five fails.
C9_FirstFailingCheckDecides ==
    [][\A r \in Runs :
          /\ (run[r].pc = "txn" /\ Stepped(r)) =>
                IF FailingChecks(r) = {}
                THEN run'[r].pc = "commit" \/ StoreError(r)
                ELSE \/ StoreError(r)
                     \/ /\ Outcome(r) = FirstFailing(r).kind
                        /\ After(r).errors[Len(run[r].errors) + 1] =
                              <<Cur(r).id, FirstFailing(r).text>>
                        /\ After(r).failed = run[r].failed + 1
                        /\ orders' = orders
          /\ (run[r].pc = "commit" /\ Stepped(r) /\ orders' # orders) =>
                FailingChecks(r) = {}]_vars

\* A run has returned "insufficient stock" for a1 on an item with no available
\* flag, no stock, and an account with no balance: the stock check and the
\* balance check both fail, the stock check is reported.
C9_Witness ==
    /\ result # NoResult
    /\ \E k \in DOMAIN result[1].value.errors :
          result[1].value.errors[k] = <<"a1", "insufficient stock">>
    /\ menuItems["i1"].available = Absent
    /\ menuItems["i1"].quantity = 0
    /\ users["u1"].walletBalance = 0

\* The step is the commit of the candidate of invocation r.
Succeeds(r) ==
    /\ run[r].pc = "commit"
    /\ Stepped(r)
    /\ Outcome(r) = "succeeded"

\* What the commit of the candidate of r leaves: the stock and the balance
\* decremented, the other items and accounts as they were, and one record
\* more in each of the four collections.
CommitEffect(r) ==
    LET id == Cur(r).id
        autoOrder == Cur(r).data
        total == autoOrder.itemPrice * autoOrder.quantity
        stock == menuItems[autoOrder.itemId].quantity
    IN /\ menuItems'[autoOrder.itemId].quantity = stock - autoOrder.quantity
       /\ \A it \in Items \ {autoOrder.itemId} : menuItems'[it] = menuItems[it]
       /\ users'[autoOrder.userId].walletBalance =
             users[autoOrder.userId].walletBalance - total
       /\ \A u \in Users \ {autoOrder.userId} : users'[u] = users[u]
       /\ Len(orders') = Len(orders) + 1
       /\ SubSeq(orders', 1, Len(orders)) = orders
       /\ Last(orders').total = total
       /\ Last(orders').status = "pending"
       /\ Last(orders').autoOrderId = id
       /\ Last(orders').userId = autoOrder.userId
       /\ Last(orders').itemId = autoOrder.itemId
       /\ Len(walletTransactions') = Len(walletTransactions) + 1
       /\ SubSeq(walletTransactions', 1, Len(walletTransactions))
             = walletTransactions
       /\ Last(walletTransactions').type = "debit"
       /\ Last(walletTransactions').amount = total
       /\ Last(walletTransactions').userId = autoOrder.userId
       /\ Len(notifications') = Len(notifications) + 1
       /\ SubSeq(notifications', 1, Len(notifications)) = notifications
       /\ Last(notifications').userId = autoOrder.userId
       /\ Len(autoOrderExecutions') = Len(autoOrderExecutions) + 1
       /\ SubSeq(autoOrderExecutions', 1, Len(autoOrderExecutions))
             = autoOrderExecutions
       /\ Last(autoOrderExecutions').success
       /\ Last(autoOrderExecutions').autoOrderId = id
       /\ Last(autoOrderExecutions').stockBefore = stock
       /\ Last(autoOrderExecutions').stockAfter = stock - autoOrder.quantity
       /\ Last(autoOrderExecutions').amountDeducted = total
       /\ After(r).succeeded = run[r].succeeded + 1
       /\ After(r).failed = run[r].failed
       /\ After(r).skipped >= run[r].skipped

\* The stock and the balance a returned run that was alone found for its one
\* candidate: the run wrote them only if it created its order.
FoundStock(l) ==
    IF Len(orders) > l.ordersAtStart
    THEN Last(autoOrderExecutions).stockBefore
    ELSE menuItems[l.docs[1].data.itemId].quantity

FoundBalance(l) ==
    IF Len(orders) > l.ordersAtStart
    THEN users[l.docs[1].data.userId].walletBalance + Last(orders).total
    ELSE users[l.docs[1].data.userId].walletBalance

\* Scenario A: a run that was alone and whose store answered, with one
\* candidate, daily, not yet executed on the run's date, of an existing account
\* and an existing item not flagged unavailable, with the stock and the balance
\* it takes.
ScenarioA(l) ==
    /\ ~overlapped
    /\ Len(l.docs) = 1
    /\ l.outcomes # <<"store error">>
    /\ LET autoOrder == l.docs[1].data
       IN /\ autoOrder.frequency = "daily"
          /\ autoOrder.lastExecutedDate # l.ist.dateStr
          /\ users[autoOrder.userId].exists
          /\ menuItems[autoOrder.itemId].exists
          /\ Len(orders) = l.ordersAtStart =>
                menuItems[autoOrder.itemId].available # "false"
          /\ FoundStock(l) >= autoOrder.quantity
          /\ FoundBalance(l) >= autoOrder.itemPrice * autoOrder.quantity

ScenarioAResult ==
    (result # NoResult /\ result[1].value.success /\ ScenarioA(result[1].locals))
        => /\ result[1].value.candidates = 1
           /\ result[1].value.succeeded = 1
           /\ result[1].value.failed = 0
           /\ result[1].value.skipped = 0
           /\ result[1].value.processed = 1
           /\ result[1].value.errors = <<>>
           /\ Len(orders) = result[1].locals.ordersAtStart + 1

\* C10: the step in which a candidate succeeds takes exactly quantity from the
\* item's stock and itemPrice * quantity from the account's balance and creates
\* exactly one Order (that total, pending, naming the RecurringOrder), one
\* LedgerEntry (a debit of the total), one Notification and one ExecutionAudit
\* (success, stockBefore, stockAfter, amountDeducted); and a run with one
\* active daily candidate that has the stock and the balance returns
\* succeeded = 1, failed = 0, skipped = 0.
C10_SuccessEffects ==
    /\ [][\A r \in Runs : Succeeds(r) => CommitEffect(r)]_vars
    /\ []ScenarioAResult

\* A run with the weekdays order for two units as its second candidate has
\* returned after committing it: two units left the shelf, two the wallet.
C10_Witness ==
    /\ result # NoResult
    /\ result[1].value.succeeded = 1
    /\ orders # <<>>
    /\ Last(orders).quantity = 2
    /\ Last(orders).total = 2
    /\ menuItems["i1"].quantity = MaxStock - 2
    /\ users["u1"].walletBalance = MaxBalance - 2

\* Scenario A has happened: a lone run with the one candidate a1 returns.
ScenarioA_Witness ==
    /\ result # NoResult
    /\ result[1].value.success
    /\ ScenarioA(result[1].locals)
    /\ result[1].locals.docs[1].id = "a1"
    /\ result[1].value.succeeded = 1
    /\ menuItems["i1"].quantity = 0

\* The weekday of the calendar date that is d days after 1970-01-01.
Weekday(d) == <<"Thu", "Fri", "Sat", "Sun", "Mon", "Tue", "Wed">>[(d % 7) + 1]

\* A RecurringOrder is due on a weekday.
Due(autoOrder, day) ==
    \/ autoOrder.frequency = "daily"
    \/ autoOrder.frequency = "weekdays" /\ day \in {"Mon", "Tue", "Wed", "Thu", "Fri"}
    \/ /\ autoOrder.frequency = "custom"
       /\ autoOrder.customDays.isArray
       /\ day \in autoOrder.customDays.days

\* C11: a run over a store with one candidate, on any day of the week and for
\* any rule and configured set of days, changes no store record up to its
\* first await or its return; when the candidate is not due (the rule is not
\* daily, not weekdays on Mon..Fri, not custom with today in its set; so a
\* custom rule without a set and an unknown rule never are) the run returns
\* it skipped, with nothing processed, failed or attempted; when it is due it
\* is not skipped as not scheduled, and is attempted unless it already ran
\* today.
C11_DueByRecurrenceRule ==
    [][(called = NoCall /\ StartsAlone) =>
          LET l == Started
              autoOrder == l.docs[1].data
          IN /\ store' = store
             /\ IF ~Due(autoOrder, Weekday(today))
                THEN /\ l.outcomes = <<"not scheduled">>
                     /\ l.pc = "idle"
                     /\ result'[1].value.skipped = 1
                     /\ result'[1].value.failed = 0
                     /\ result'[1].value.processed = 0
                     /\ result'[1].value.succeeded = 0
                     /\ result'[1].value.errors = <<>>
                ELSE /\ l.outcomes # <<"not scheduled">>
                     /\ autoOrder.lastExecutedDate # today =>
                           /\ l.pc = "txn"
                           /\ l.i = 1
                           /\ l.processed = 1
                           /\ l.skipped = 0]_vars

\* Scenario D: a run on a Tuesday has returned skipped = 1 for the one
\* candidate, custom with customDays ["Mon"].
C11_Witness ==
    /\ result # NoResult
    /\ result[1].value.day = "Tue"
    /\ result[1].value.candidates = 1
    /\ result[1].value.skipped = 1
    /\ result[1].value.processed = 0
    /\ autoOrders["a1"].frequency = "custom"
    /\ autoOrders["a1"].customDays = Days({"Mon"})
    /\ orders = <<>>

\* The RecurringOrders that are active and scheduled at a time key.
Selected(queryTime) ==
    {id \in AutoOrderIdSet :
        autoOrders[id].status = "active" /\ autoOrders[id].time = queryTime}

\* The candidates of every run that queried are the selected ones, each once,
\* and the result counts them; every order and audit names an active one.
CandidatesAreSelected ==
    /\ \A l \in Visible :
          l.queryTime # "" =>
              /\ {l.docs[j].id : j \in DOMAIN l.docs} = Selected(l.queryTime)
              /\ Len(l.docs) = Cardinality(Selected(l.queryTime))
    /\ (result # NoResult /\ result[1].value.success) =>
          result[1].value.candidates
              = Cardinality(Selected(result[1].value.time))
    /\ \A k \in DOMAIN orders : autoOrders[orders[k].autoOrderId].status = "active"
    /\ \A k \in DOMAIN autoOrderExecutions :
          autoOrders[autoOrderExecutions[k].autoOrderId].status = "active"

\* A step changes a RecurringOrder only as the candidate at hand of a run
\* that selected it, and never its status, its time or what it orders.
OnlySelectedModified ==
    \A id \in AutoOrderIdSet :
        /\ autoOrders'[id].status = autoOrders[id].status
        /\ autoOrders'[id].time = autoOrders[id].time
        /\ autoOrders'[id].userId = autoOrders[id].userId
        /\ autoOrders'[id].itemId = autoOrders[id].itemId
        /\ autoOrders'[id] # autoOrders[id] =>
              \E r \in Runs :
                  /\ Running(r)
                  /\ Stepped(r)
                  /\ Cur(r).id = id
                  /\ id \in Selected(run[r].queryTime)

\* C12: the candidates of a run are exactly the RecurringOrders that are
\* active and scheduled at the run's time key; one that is inactive or
\* scheduled at another time is not counted, attempted or modified by the
\* run, and no RecurringOrder changes status or disappears.
C12_CandidatesAreTheSelected ==
    /\ []CandidatesAreSelected
    /\ [][OnlySelectedModified]_vars
    /\ [](DOMAIN autoOrders = AutoOrderIdSet)

\* A run at 09:00 has returned: it counted and executed a1 alone, and the
\* second auto order, paused or scheduled at 10:00, is as it was.
C12_Witness ==
    /\ result # NoResult
    /\ result[1].value.time = "09:00"
    /\ result[1].value.candidates = 1
    /\ result[1].value.succeeded = 1
    /\ autoOrders["a2"].status = "paused" \/ autoOrders["a2"].time = "10:00"
    /\ autoOrders["a2"].lastExecutedDate = NoDate
    /\ autoOrders["a2"].totalExecutions = 0
    /\ autoOrders["a1"].totalExecutions = 1

\* The step ended the candidate of r with a failure.
Fails(r) ==
    /\ Running(r)
    /\ Stepped(r)
    /\ Outcome(r) \notin Skips \cup {"succeeded", "pending"}

\* C13: the step in which a candidate fails, at any of the five checks or by
\* an error of the store, counts one failure and appends one error string
\* naming the candidate, and touches nothing a later candidate's outcome
\* depends on: every store record, the snapshot, the date and weekday and the
\* other counters are as they were, and the loop goes on to the candidates
\* after it.
C13_FailureIsContained ==
    [][\A r \in Runs :
          Fails(r) =>
              LET l == run[r]
                  after == After(r)
              IN /\ after.failed = l.failed + 1
                 /\ Len(after.errors) = Len(l.errors) + 1
                 /\ SubSeq(after.errors, 1, Len(l.errors)) = l.errors
                 /\ Last(after.errors)[1] = Cur(r).id
                 /\ store' = store
                 /\ after.docs = l.docs
                 /\ after.ist = l.ist
                 /\ after.queryTime = l.queryTime
                 /\ after.succeeded = l.succeeded
                 /\ after.processed \in {l.processed, l.processed + 1}
                 /\ after.i > l.i
                 /\ IF after.pc = "idle"
                    THEN /\ Len(after.outcomes) = Len(l.docs)
                         /\ result'[1].value.success
                         /\ result'[1].value.failed = after.failed
                    ELSE /\ after.pc = "txn"
                         /\ Len(after.outcomes) = after.i - 1]_vars

\* A run has returned: its first candidate failed on an error of the store,
\* its second succeeded.
C13_Witness ==
    /\ result # NoResult
    /\ result[1].locals.outcomes = <<"store error", "succeeded">>
    /\ result[1].value.failed = 1
    /\ result[1].value.succeeded = 1
    /\ Len(result[1].value.errors) = 1

\* The candidates of the locals l that failed.
FailedIn(l) ==
    {j \in DOMAIN l.outcomes : l.outcomes[j] \notin Skips \cup {"succeeded"}}

\* An unsuccessful result reports one of the two infrastructure failures, no
\* candidate and zero counters, and comes from a call that never reached the
\* loop; a result of a call that did is successful, with failed counting its
\* failed candidates and one error string for each.
UnsuccessfulIsInfrastructure ==
    result # NoResult =>
        LET value == result[1].value
            l == result[1].locals
        IN IF ~value.success
           THEN /\ value.message \in {"Firebase Admin SDK is not working",
                                      "query failed"}
                /\ value.candidates = 0
                /\ value.skipped = 0
                /\ value.processed = 0
                /\ value.succeeded = 0
                /\ value.failed = 0
                /\ Len(value.errors) = 1
                /\ l = IdleRun
           ELSE /\ value.failed = Cardinality(FailedIn(l))
                /\ Len(value.errors) = value.failed
                /\ FailedIn(l) # {} => (value.failed > 0 /\ value.errors # <<>>)

\* C14: a result has success = false only when the store was unavailable at
\* startup or the candidate query failed; the step returning it changes no
\* store record and belongs to a call that attempted no candidate, and all
\* its counters are 0.  A run whose candidates failed returns success = true
\* with failed > 0 and errors non-empty.
C14_UnsuccessfulOnlyForInfrastructure ==
    /\ []UnsuccessfulIsInfrastructure
    /\ [][(result' # NoResult /\ ~result'[1].value.success) =>
             (store' = store /\ run' = run)]_vars

\* The candidate query of a call has failed after an earlier run created an
\* order: success = false, and the order is all there is.
C14_Witness ==
    /\ result # NoResult
    /\ ~result[1].value.success
    /\ result[1].value.message = "query failed"
    /\ Len(orders) = 1
    /\ Len(autoOrderExecutions) = 1

\* A run has returned success = true with both its candidates failed.
C14_FailuresWitness ==
    /\ result # NoResult
    /\ result[1].value.success
    /\ result[1].value.failed = 2
    /\ Len(result[1].value.errors) = 2

\* The step is a run of the transaction body of r's candidate, the store
\* answering, on an existing account and an existing item with quantity 0.
BodyOnEmptyShelf(r) ==
    /\ run[r].pc = "txn"
    /\ Stepped(r)
    /\ ~StoreError(r)
    /\ users[Cur(r).data.userId].exists
    /\ menuItems[Cur(r).data.itemId].exists
    /\ menuItems[Cur(r).data.itemId].quantity = 0

\* The step fails the candidate of r with a kind and a reason and leaves the
\* stock and the balances as they were.
FailsWith(r, kind, text) ==
    /\ Outcome(r) = kind
    /\ Last(After(r).errors) = <<Cur(r).id, text>>
    /\ After(r).failed = run[r].failed + 1
    /\ menuItems' = menuItems
    /\ users' = users

\* C15 as stated: whenever a candidate's item has quantity 0, whatever else
\* the item's state, the candidate fails with reason "insufficient stock" and
\* stock and balance are unchanged.
C15_EmptyShelfIsInsufficientStock ==
    [][\A r \in Runs :
          BodyOnEmptyShelf(r) =>
              FailsWith(r, "INSUFFICIENT_STOCK", "insufficient stock")]_vars

\* C15 as amended: when the item has quantity 0 the candidate fails and stock
\* and balance are unchanged: with reason "insufficient stock" when the
\* item's available flag is not false, with reason "item unavailable" when it
\* is false, as it is on every item whose stock this engine took to 0.
C15_EmptyShelfFails ==
    /\ [][\A r \in Runs :
            BodyOnEmptyShelf(r) =>
                IF menuItems[Cur(r).data.itemId].available = "false"
                THEN FailsWith(r, "ITEM_UNAVAILABLE", "item unavailable")
                ELSE FailsWith(r, "INSUFFICIENT_STOCK", "insufficient stock")]_vars
    /\ [](\A k \in DOMAIN orders :
            menuItems[orders[k].itemId].quantity = 0 =>
                menuItems[orders[k].itemId].available = "false")

\* Scenario B: a run has returned "insufficient stock" for a1, whose item has
\* quantity 0 and is flagged available; the balance is untouched.
C15_Witness ==
    /\ result # NoResult
    /\ result[1].value.failed >= 1
    /\ result[1].value.errors[1] = <<"a1", "insufficient stock">>
    /\ menuItems["i1"].quantity = 0
    /\ menuItems["i1"].available = "true"
    /\ users["u1"].walletBalance = MaxBalance
    /\ orders = <<>>

\* A run has returned "item unavailable" for a candidate whose item an
\* earlier execution emptied.
C15_EmptiedWitness ==
    /\ result # NoResult
    /\ \E k \in DOMAIN result[1].value.errors :
          result[1].value.errors[k][2] = "item unavailable"
    /\ orders # <<>>
    /\ menuItems["i1"].quantity = 0

\* A call whose query found no active RecurringOrder at its time key has
\* returned a successful result of zeros with a message; and no invocation is
\* under way on an empty snapshot.
EmptyShortCircuits ==
    /\ \A r \in Runs : Running(r) => run[r].docs # <<>>
    /\ (/\ result # NoResult
        /\ result[1].locals.queryTime # ""
        /\ Selected(result[1].locals.queryTime) = {}) =>
          LET value == result[1].value
          IN /\ value.success
             /\ value.time = result[1].locals.queryTime
             /\ value.candidates = 0
             /\ value.skipped = 0
             /\ value.processed = 0
             /\ value.succeeded = 0
             /\ value.failed = 0
             /\ value.errors = <<>>
             /\ value.message = "No active auto orders for " \o value.time \o " IST"
             /\ result[1].locals.outcomes = <<>>

\* C16: when no RecurringOrder is active at the time key, the run returns at
\* once success = true, candidates = skipped = processed = succeeded =
\* failed = 0, no errors and a message, and the step changes no store record.
C16_EmptyShortCircuits ==
    /\ []EmptyShortCircuits
    /\ [][(/\ result' # NoResult
           /\ result'[1].locals.queryTime # ""
           /\ Selected(result'[1].locals.queryTime) = {}) =>
             (store' = store /\ run' = run)]_vars

\* Scenario C: a run at 10:00, where nothing is scheduled, has returned
\* candidates = 0 after an earlier run at 09:00 created an order.
C16_Witness ==
    /\ result # NoResult
    /\ result[1].value.success
    /\ result[1].value.time = "10:00"
    /\ result[1].value.candidates = 0
    /\ result[1].value.message = "No active auto orders for 10:00 IST"
    /\ Len(orders) = 1

\* "HH:MM" for a minute of the day.
TwoDigits(n) == ToString(n \div 10) \o ToString(n % 10)

ClockFace(minute) == TwoDigits(minute \div 60) \o ":" \o TwoDigits(minute % 60)

\* C17: for every Date, getIST returns the time of day, weekday and date of
\* the instant 5h30m later: its minute of the day is the UTC minute of the day
\* plus 330 modulo 1440, and its weekday and date are those of the UTC day,
\* or of the following day exactly when the UTC time of day is 18:30 or
\* later.  The value is fixed by the instant.
C17_GetISTShiftsByFiveThirty ==
    (called # NoCall /\ called[1].done) =>
        LET date == called[1].date
            utcMinute == (date \div 60000) % 1440
            utcDay == date \div 86400000
            istDay == IF utcMinute >= 18 * 60 + 30 THEN utcDay + 1 ELSE utcDay
        IN /\ called[1].ist.time = ClockFace((utcMinute + 330) % 1440)
           /\ called[1].ist.dateStr = istDay
           /\ called[1].ist.day = Weekday(istDay)

\* getIST has been called on 1970-01-01T18:30:00.000Z: it is 00:00 of Friday
\* 1970-01-02 in IST.
C17_Witness ==
    /\ called # NoCall
    /\ called[1].done
    /\ called[1].date = (18 * 60 + 30) * MinuteMs
    /\ called[1].ist = [time |-> "00:00", day |-> "Fri", dateStr |-> 1]

\* The step is the manual call with an override; its locals at its first
\* await or at its return.
OverrideStep == called = NoCall /\ called' # NoCall

StartedManual ==
    IF run'["manual"].pc # "idle" THEN run'["manual"] ELSE result'[1].locals

\* The step is the start of a scheduled run after the manual call; its locals.
ScheduledStep ==
    /\ called # NoCall
    /\ ~Running("cron")
    /\ run'["cron"].pc # "idle" \/ (run' = run /\ result' # NoResult)

StartedCron ==
    IF run'["cron"].pc # "idle" THEN run'["cron"] ELSE result'[1].locals

\* The override is the time key and selects the candidates, while the weekday
\* and the date of the run are those of the instant of the call.
OverrideReplacesKeyOnly ==
    OverrideStep =>
        LET call == called'[1]
            l == StartedManual
        IN /\ l.queryTime = call.overrideTime
           /\ {l.docs[j].id : j \in DOMAIN l.docs} = Selected(call.overrideTime)
           /\ l.ist.dateStr = today
           /\ l.ist.day = Weekday(today)
           /\ result' # NoResult =>
                 /\ result'[1].value.time = call.overrideTime
                 /\ result'[1].value.date = today
                 /\ result'[1].value.day = Weekday(today)

\* What the overriding run commits is dated and marked with the date of the
\* instant of the call.
OverrideMarksRealDate ==
    (called # NoCall /\ Succeeds("manual")) =>
        /\ Last(orders').createdAt = called[1].ist.dateStr
        /\ autoOrders'[Cur("manual").id].lastExecutedDate = called[1].ist.dateStr

\* A scheduled run of the overridden slot that starts on the date of the
\* manual call attempts no RecurringOrder that has an order of that date.
ScheduledRunSkips ==
    (/\ ScheduledStep
     /\ today = called[1].ist.dateStr
     /\ StartedCron.queryTime = called[1].overrideTime) =>
        \A j \in AttemptedBy(StartedCron) :
            OrdersOn(StartedCron.docs[j].id, today) = {}

ItemOf(r) == Cur(r).data.itemId

\* The engine has taken from the stock of an item.
Served(it) == \E k \in DOMAIN orders : orders[k].itemId = it

\* The step commits the candidate of r and leaves its item flagged available
\* exactly when stock is left.
CommitSetsAvailable ==
    \A r \in Runs :
        Succeeds(r) =>
            menuItems'[ItemOf(r)].available =
                (IF menuItems'[ItemOf(r)].quantity > 0 THEN "true" ELSE "false")

\* A transaction body that runs, the store answering, for an existing
\* account on an item the engine has emptied fails with ITEM_UNAVAILABLE and
\* changes no store record; and nothing commits on such an item.
EmptiedItemIsUnavailable ==
    \A r \in Runs :
        (/\ Running(r)
         /\ Stepped(r)
         /\ ~StoreError(r)
         /\ users[Cur(r).data.userId].exists
         /\ Served(ItemOf(r))
         /\ menuItems[ItemOf(r)].quantity = 0) =>
            /\ store' = store
            /\ run[r].pc = "txn" =>
                  FailsWith(r, "ITEM_UNAVAILABLE", "item unavailable")
            /\ run[r].pc = "commit" => Outcome(r) = "pending"

RECURSIVE SumOf(_, _)
SumOf(f, S) ==
    IF S = {} THEN 0
    ELSE LET k == CHOOSE n \in S : TRUE IN f[k] + SumOf(f, S \ {k})

\* What the LedgerEntries and the Orders of an account add up to, and the
\* quantities of the Orders of an item.
Debited(u) ==
    SumOf([k \in DOMAIN walletTransactions |-> walletTransactions[k].amount],
          {k \in DOMAIN walletTransactions :
              walletTransactions[k].userId = u
                  /\ walletTransactions[k].type = "debit"})

Ordered(u) ==
    SumOf([k \in DOMAIN orders |-> orders[k].total],
          {k \in DOMAIN orders : orders[k].userId = u})

Taken(it) ==
    SumOf([k \in DOMAIN orders |-> orders[k].quantity],
          {k \in DOMAIN orders : orders[k].itemId = it})

\* Every debit, decrement and execution count is accounted for by a record.
NoLostUpdate ==
    /\ \A u \in Users :
          /\ initial.walletBalance[u] - users[u].walletBalance = Debited(u)
          /\ Debited(u) = Ordered(u)
    /\ \A it \in Items :
          initial.quantity[it] - menuItems[it].quantity = Taken(it)
    /\ \A id \in AutoOrderIdSet :
          autoOrders[id].totalExecutions =
              Cardinality({k \in DOMAIN orders : orders[k].autoOrderId = id})

\* A unit whose commit finds the account or the item written since it read
\* them writes nothing and is run again from its reads.
ConflictingUnitIsRerun ==
    \A r \in Runs :
        (/\ run[r].pc = "commit"
         /\ Stepped(r)
         /\ ~StoreError(r)
         /\ \/ users[Cur(r).data.userId] # run[r].userDoc
            \/ menuItems[ItemOf(r)] # run[r].menuItemDoc) =>
            /\ store' = store
            /\ run'[r].pc = "txn"
            /\ run'[r].i = run[r].i
            /\ run'[r].processed = run[r].processed

\* C20: whatever the contention between candidates of one run or of
\* overlapping runs, in every state each account's initial balance less its
\* balance is the sum of its LedgerEntries and the sum of the totals of its
\* Orders, each item's initial stock less its stock is the sum of the
\* quantities of its Orders, and each RecurringOrder's totalExecutions is the
\* number of its Orders; a conflicting unit is re-run from its read phase.
C20_NoLostUpdate ==
    /\ []NoLostUpdate
    /\ [][ConflictingUnitIsRerun]_vars

\* Two overlapping runs have both executed a1 on the same date: two units
\* left the shelf and the wallet, and a1 counts two executions.
C20_Witness ==
    /\ overlapped
    /\ Len(orders) = 2
    /\ orders[1].autoOrderId = "a1"
    /\ orders[2].autoOrderId = "a1"
    /\ orders[1].createdAt = orders[2].createdAt
    /\ menuItems["i1"].quantity = initial.quantity["i1"] - 2
    /\ users["u1"].walletBalance = initial.walletBalance["u1"] - 2
    /\ autoOrders["a1"].totalExecutions = 2

\* The candidates of the locals l that succeeded.
SucceededIn(l) == {j \in DOMAIN l.outcomes : l.outcomes[j] = "succeeded"}

\* The counters of the locals l agree with what became of the candidates
\* visited so far: the loop is at candidate i with the i - 1 before it each
\* ended once, as a skip, a success or a failure, and the one at hand (if any)
\* is counted as processed only.  A call that found no candidate never
\* entered the loop.
CountersAgree(l) ==
    /\ Len(l.outcomes) = (IF l.docs = <<>> THEN 0 ELSE l.i - 1)
    /\ l.i <= Len(l.docs) + 1
    /\ (l.pc = "idle") = (l.docs = <<>> \/ l.i > Len(l.docs))
    /\ l.skipped = Cardinality(SkippedBy(l))
    /\ l.succeeded = Cardinality(SucceededIn(l))
    /\ l.failed = Cardinality(FailedIn(l))
    /\ Len(l.errors) = l.failed
    /\ l.processed = l.succeeded + l.failed + (IF l.pc = "idle" THEN 0 ELSE 1)

\* A successful result adds up, and reports the counters of the loop.
SuccessfulResultAddsUp ==
    (result # NoResult /\ result[1].value.success) =>
        LET value == result[1].value
            l == result[1].locals
        IN /\ value.candidates = value.skipped + value.processed
           /\ value.processed = value.succeeded + value.failed
           /\ Len(value.errors) = value.failed
           /\ value.candidates = Len(l.docs)
           /\ Len(l.outcomes) = value.candidates
           /\ value.skipped = Cardinality(SkippedBy(l))
           /\ value.succeeded = Cardinality(SucceededIn(l))
           /\ value.failed = Cardinality(FailedIn(l))
           /\ SkippedBy(l) \cup SucceededIn(l) \cup FailedIn(l) = DOMAIN l.docs

\* A step of an invocation under way keeps its snapshot and what became of
\* the candidates already visited, and never goes back in the snapshot.
VisitedInSequence ==
    \A r \in Runs :
        (Running(r) /\ Stepped(r)) =>
            LET l == run[r]
                after == After(r)
            IN /\ after.docs = l.docs
               /\ after.i >= l.i
               /\ Len(after.outcomes) >= Len(l.outcomes)
               /\ SubSeq(after.outcomes, 1, Len(l.outcomes)) = l.outcomes

\* C21: in every result with success = true, candidates = skipped +
\* processed, processed = succeeded + failed, the number of error strings is
\* failed, and every candidate of the snapshot counts in exactly one of
\* skipped, succeeded and failed; the loop visits the candidates once each, in
\* the order of the snapshot, and its counters agree with the candidates
\* visited at every await.
C21_CountersAddUp ==
    /\ []SuccessfulResultAddsUp
    /\ [](\A l \in Visible : CountersAgree(l))
    /\ [][VisitedInSequence]_vars

\* A run over two candidates has returned success = true with one skipped by
\* the duplicate guard and one failed.
C21_Witness ==
    /\ result # NoResult
    /\ result[1].value.success
    /\ result[1].value.candidates = 2
    /\ result[1].value.skipped = 1
    /\ result[1].value.processed = 1
    /\ result[1].value.failed = 1
    /\ Len(result[1].value.errors) = 1
    /\ "already ran" \in {result[1].locals.outcomes[j] : j \in 1..2}

\* The candidates of the snapshot of l that are due on the run's weekday and
\* were not yet executed on the run's date when the snapshot was taken.
DueNotDuplicate(l) ==
    {j \in DOMAIN l.docs :
        /\ Due(l.docs[j].data, Weekday(l.ist.dateStr))
        /\ l.docs[j].data.lastExecutedDate # l.ist.dateStr}

\* A step of an invocation under way either ends the candidate at hand and
\* moves on, or is an internal step of its transaction: the body returned and
\* awaits its commit, or the commit was refused on a conflict with the
\* documents read and the body runs again, nothing being written.  The
\* candidate is counted as processed once, whatever the transaction retries.
NoRetryOfCandidate ==
    \A r \in Runs :
        (Running(r) /\ Stepped(r)) =>
            LET l == run[r]
                after == After(r)
                autoOrder == Cur(r).data
            IN /\ after.docs = l.docs
               /\ IF after.i = l.i
                  THEN /\ store' = store
                       /\ after.processed = l.processed
                       /\ after.failed = l.failed
                       /\ after.succeeded = l.succeeded
                       /\ after.errors = l.errors
                       /\ \/ l.pc = "txn" /\ after.pc = "commit"
                          \/ /\ l.pc = "commit" /\ after.pc = "txn"
                             /\ \/ users[autoOrder.userId] # l.userDoc
                                \/ menuItems[autoOrder.itemId] # l.menuItemDoc
                  ELSE /\ after.i > l.i
                       /\ after.succeeded + after.failed
                              = l.succeeded + l.failed + 1
                       /\ l.i \in AttemptedBy(after)
                       /\ \A j \in (l.i + 1)..(after.i - 1) : j \in SkippedBy(after)

\* The step in which an invocation returns from its loop returns the summary:
\* every candidate was visited, those due and not duplicates attempted, the
\* others skipped.
ReturnsSummary ==
    \A r \in Runs :
        (Running(r) /\ ~Running(r)') =>
            /\ result' # NoResult
            /\ LET value == result'[1].value
                   l == result'[1].locals
               IN /\ value.success
                  /\ value.candidates = Len(run[r].docs)
                  /\ l.docs = run[r].docs
                  /\ l.i = Len(l.docs) + 1
                  /\ AttemptedBy(l) = DueNotDuplicate(l)
                  /\ value.processed = Cardinality(DueNotDuplicate(l))
                  /\ value.skipped = Len(l.docs) - Cardinality(DueNotDuplicate(l))

\* C22: over a store whose transactions each eventually commit or fail, every
\* run that entered its loop eventually returns, and the step in which it does
\* returns the summary, with each candidate that is due and not a duplicate
\* attempted once and the others skipped; a candidate that failed is never
\* attempted again in the run, the only repetition being that of a
\* transaction body whose commit met a conflict.
C22_RunReturnsSummary ==
    /\ \A r \in Runs : Running(r) ~> ~Running(r)
    /\ [][NoRetryOfCandidate]_vars
    /\ [][ReturnsSummary]_vars

\* Two overlapping runs have contended and the later one has returned its
\* summary: both its candidates were attempted, one succeeded and one failed.
C22_Witness ==
    /\ overlapped
    /\ result # NoResult
    /\ result[1].value.success
    /\ result[1].value.candidates = 2
    /\ result[1].value.processed = 2
    /\ result[1].value.succeeded = 1
    /\ result[1].value.failed = 1
    /\ \A r \in Runs : ~Running(r)

====
